---------------------------- MODULE Spec2Model ----------------------------
(***************************************************************************)
(* Model of optimized.py (adaptive-granularity 0/1 knapsack) and of the    *)
(* brute-force enumeration of bruteforce.py.                               *)
(*                                                                         *)
(* Numbers.  The program computes with floats; the model computes with     *)
(* exact values on a grid:                                                 *)
(*   - a cost or a budget is an integer number of grid units, Grid         *)
(*     units to the cent (so a cost need not be a whole number of cents);  *)
(*   - a rate is an integer number of percent;                             *)
(*   - a profit cost*rate is therefore in units of 1/(100*Grid) cent.      *)
(* A call is made on one of two grids: the coarse one (SubCent units to    *)
(* the cent), on which the absolute epsilon 1e-9 (euros) of the greedy     *)
(* fill is below one grid unit and rounds to Eps = 0, and the fine one, on *)
(* which one grid unit is 1e-9 euro and Eps = 1 (amounts then stay around  *)
(* one cent, profits having to fit TLC's integers).  The relative          *)
(* tolerance 1e-9 of math.isclose is kept on both.                         *)
(***************************************************************************)
EXTENDS Integers, Sequences, FiniteSets, TLC

\* the grid of the call's amounts: fine (one unit = 1e-9 euro) or coarse
VARIABLE fine

\* grid units per cent on the coarse grid
SubCent == 5

\* 1 / 1e-9, the absolute epsilon of the greedy fill
EpsInv == 1000000000

\* grid units per cent
Grid == IF fine THEN EpsInv \div 100 ELSE SubCent

\* 1e-9 euro in grid units (rounded down: amounts are whole grid units)
Eps == (100 * Grid) \div EpsInv

MIN_STEP_CENTS == 100
MAX_STEP_CENTS == 2000

\* 1 / rel_tol of math.isclose
RelTolInv == 1000000000

\* mp.cpu_count() of the machine
CpuCount == 2

\* scheduling skew: how many later tasks may be started past a running one
MaxOvertake == 1

None == [none |-> TRUE]

Cents(n) == n * Grid
Euros(n) == n * 100 * Grid

Opt(n, c, r) == [name |-> n, cost |-> c, rate |-> r]

Abs(x) == IF x < 0 THEN -x ELSE x
Max2(a, b) == IF a >= b THEN a ELSE b
Min2(a, b) == IF a <= b THEN a ELSE b

\* c * r of an option
Profit(o) == o.cost * o.rate

\* int(round(c * 100)): nearest cent, a half going to the even cent
RoundCents(c) ==
    LET q == c \div Grid
        r == c % Grid
    IN  IF 2 * r < Grid THEN q
        ELSE IF 2 * r > Grid THEN q + 1
        ELSE IF q % 2 = 0 THEN q ELSE q + 1

\* math.isclose(a, b, rel_tol=1e-9): abs(a-b) <= rel_tol * max(|a|, |b|)
IsClose(a, b) == Abs(a - b) <= Max2(Abs(a), Abs(b)) \div RelTolInv

(***************************************************************************)
(* Candidate pruner                                                        *)
(***************************************************************************)
prune_over_budget(actions, budget) ==
    SelectSeq(actions, LAMBDA a : a.cost <= budget)

\* the dict by_cost, as the sequence of its values in insertion order
RECURSIVE DedupeFrom(_, _, _)
DedupeFrom(actions, i, by_cost) ==
    IF i > Len(actions) THEN by_cost
    ELSE LET a == actions[i]
             key == RoundCents(a.cost)
             pos == {j \in 1..Len(by_cost) : RoundCents(by_cost[j].cost) = key}
         IN  IF pos = {} THEN DedupeFrom(actions, i + 1, Append(by_cost, a))
             ELSE LET j == CHOOSE k \in pos : TRUE
                  IN  IF a.rate > by_cost[j].rate
                      THEN DedupeFrom(actions, i + 1, [by_cost EXCEPT ![j] = a])
                      ELSE DedupeFrom(actions, i + 1, by_cost)

dedupe_same_cost_keep_best_rate(actions) == DedupeFrom(actions, 1, <<>>)

prune_exact(actions, budget) ==
    dedupe_same_cost_keep_best_rate(prune_over_budget(actions, budget))

(***************************************************************************)
(* DP worker                                                               *)
(***************************************************************************)
CostsCents(actions) == [i \in 1..Len(actions) |-> RoundCents(actions[i].cost)]

\* mutant: the quantized cost rounded down instead of up
QuantCostFloor(cc, step) == cc \div step

\* (c + step - 1) // step
QuantCost(cc, step) == (cc + step - 1) \div step

\* the tuple of quantized costs at a step
Mapping(costs_cents, step) ==
    [i \in 1..Len(costs_cents) |-> QuantCost(costs_cents[i], step)]

Unreachable == -1

\* mutant: the test "bw_cu >= 0.0" of the DP loop left out
DpWeightsAnyCell(tab, B, cu, p, idx) ==
    LET Takes(w) == /\ w >= cu
                    /\ tab.best[w - cu] + p > tab.best[w]
        best == [w \in 0..B |-> IF Takes(w) THEN tab.best[w - cu] + p
                                ELSE tab.best[w]]
        parent == [w \in 0..B |-> IF Takes(w) THEN <<w - cu, idx>>
                                  ELSE tab.parent[w]]
    IN  \* (the EXCEPT only makes TLC tabulate the two functions)
        [best |-> [best EXCEPT ![0] = @], parent |-> [parent EXCEPT ![0] = @]]

\* mutant: the weight axis walked upward, an option taken several times
DpWeightsUpward(tab, B, cu, p, idx) ==
    LET Copies(w) == IF cu = 0 THEN {0, 1} ELSE 0..(w \div cu)
        Cands(w) == {tab.best[w - k * cu] + k * p :
                        k \in {j \in Copies(w) : tab.best[w - j * cu] >= 0}}
        New(w) == IF Cands(w) = {} THEN tab.best[w]
                  ELSE CHOOSE m \in Cands(w) : \A x \in Cands(w) : x <= m
        best == [[w \in 0..B |-> New(w)] EXCEPT ![0] = @]
        parent == [w \in 0..B |-> IF best[w] > tab.best[w] THEN <<w - cu, idx>>
                                  ELSE tab.parent[w]]
    IN  [best |-> best, parent |-> [parent EXCEPT ![0] = @]]

\* for w in range(B, cu - 1, -1): one option against the table.  The loop
\* goes down, so the entry best[w - cu] it reads is the one from before the
\* loop (cu >= 1: a lower index, not yet written; cu = 0: best[w] itself,
\* read before it is written): every w is updated from the old table.
DpWeights(tab, B, cu, p, idx) ==
    LET Takes(w) == /\ w >= cu
                    /\ tab.best[w - cu] >= 0
                    /\ tab.best[w - cu] + p > tab.best[w]
        best == [w \in 0..B |-> IF Takes(w) THEN tab.best[w - cu] + p
                                ELSE tab.best[w]]
        parent == [w \in 0..B |-> IF Takes(w) THEN <<w - cu, idx>>
                                  ELSE tab.parent[w]]
    IN  \* (the EXCEPT only makes TLC tabulate the two functions)
        [best |-> [best EXCEPT ![0] = @], parent |-> [parent EXCEPT ![0] = @]]

\* for idx, cu in enumerate(costs_u)
RECURSIVE DpOptions(_, _, _, _, _)
DpOptions(tab, idx, costs_u, profits, B) ==
    IF idx > Len(costs_u) THEN tab
    ELSE DpOptions(DpWeights(tab, B, costs_u[idx], profits[idx], idx),
                   idx + 1, costs_u, profits, B)

\* best and parent after the DP loop
DpTable(actions, budget, step) ==
    LET costs_u == Mapping(CostsCents(actions), step)
        profits == [i \in 1..Len(actions) |-> Profit(actions[i])]
        B == RoundCents(budget) \div step
        init == [best |-> [w \in 0..B |-> IF w = 0 THEN 0 ELSE Unreachable],
                 parent |-> [w \in 0..B |-> None]]
    IN  DpOptions(init, 1, costs_u, profits, B)

\* max(range(B + 1), key=lambda w: (best[w], w))
\* (the largest key is looked for among the reachable cells when there is
\* one: an unreachable cell holds -1, below every reachable one)
WStar(best) ==
    LET reachable == {w \in DOMAIN best : best[w] >= 0}
        among == IF reachable = {} THEN DOMAIN best ELSE reachable
    IN  CHOOSE w \in among :
            \A v \in among :
                best[v] < best[w] \/ (best[v] = best[w] /\ v <= w)

\* while w > 0 and parent[w] is not None
RECURSIVE Reconstruct(_, _, _)
Reconstruct(parent, w, chosen_idx) ==
    IF w > 0 /\ parent[w] # None
    THEN LET prev_w == parent[w][1]
             idx == parent[w][2]
         IN  IF prev_w = w THEN chosen_idx
             ELSE Reconstruct(parent, prev_w, chosen_idx \cup {idx})
    ELSE chosen_idx

RECURSIVE SumCost(_)
SumCost(s) == IF s = <<>> THEN 0 ELSE s[1].cost + SumCost(Tail(s))

RECURSIVE SumProfit(_)
SumProfit(s) == IF s = <<>> THEN 0 ELSE Profit(s[1]) + SumProfit(Tail(s))

\* sort key (-rate, cost) of the greedy fill, the sort being stable
Before(actions, i, j) ==
    \/ actions[i].rate > actions[j].rate
    \/ actions[i].rate = actions[j].rate /\ actions[i].cost < actions[j].cost
    \/ actions[i].rate = actions[j].rate /\ actions[i].cost = actions[j].cost /\ i < j

RECURSIVE SortIdx(_, _)
SortIdx(actions, idxs) ==
    IF idxs = {} THEN <<>>
    ELSE LET first == CHOOSE i \in idxs :
                          \A j \in idxs \ {i} : Before(actions, i, j)
         IN  <<first>> \o SortIdx(actions, idxs \ {first})

\* mutant: the loop left after the first option added, whatever remains
GreedyLoopOneOnly(actions, budget, remaining, k, acc) ==
    LET fits == {j \in k..Len(remaining) :
                    actions[remaining[j]].cost <= budget - acc.total_cost + Eps}
    IN  IF fits = {} THEN acc
        ELSE LET a == actions[remaining[CHOOSE j \in fits : \A i \in fits : j <= i]]
             IN  [chosen |-> Append(acc.chosen, a),
                  total_cost |-> acc.total_cost + a.cost,
                  total_profit |-> acc.total_profit + Profit(a)]

\* for i, (name, c, r) in remaining
RECURSIVE GreedyLoop(_, _, _, _, _)
GreedyLoop(actions, budget, remaining, k, acc) ==
    IF k > Len(remaining) THEN acc
    ELSE LET a == actions[remaining[k]]
             remaining_budget == budget - acc.total_cost
         IN  IF a.cost <= remaining_budget + Eps
             THEN LET nxt == [chosen |-> Append(acc.chosen, a),
                              total_cost |-> acc.total_cost + a.cost,
                              total_profit |-> acc.total_profit + Profit(a)]
                  IN  IF budget - nxt.total_cost <= Eps THEN nxt
                      ELSE GreedyLoop(actions, budget, remaining, k + 1, nxt)
             ELSE GreedyLoop(actions, budget, remaining, k + 1, acc)

GreedyFill(actions, budget, chosen_idx, acc) ==
    IF budget - acc.total_cost > Eps
    THEN LET rem == {i \in 1..Len(actions) :
                        i \notin chosen_idx /\ actions[i].cost > 0 /\ actions[i].rate > 0}
         IN  GreedyLoop(actions, budget, SortIdx(actions, rem), 1, acc)
    ELSE acc

\* _dp_for_step when the time guard does not trip
dp_for_step(actions, budget, step) ==
    LET tab == DpTable(actions, budget, step)
        w_star == WStar(tab.best)
        max_profit == tab.best[w_star]
        chosen_idx == Reconstruct(tab.parent, w_star, {})
        chosen == SelectSeq([i \in 1..Len(actions) |-> [a |-> actions[i], i |-> i]],
                            LAMBDA x : x.i \in chosen_idx)
        picked == [i \in 1..Len(chosen) |-> chosen[i].a]
        filled == GreedyFill(actions, budget, chosen_idx,
                             [chosen |-> picked,
                              total_cost |-> SumCost(picked),
                              total_profit |-> max_profit])
    IN  IF max_profit < 0 THEN None
        ELSE [chosen |-> filled.chosen,
              total_cost |-> filled.total_cost,
              total_profit |-> filled.total_profit,
              step |-> step]

(***************************************************************************)
(* Result aggregator                                                       *)
(***************************************************************************)
EmptySolution == [chosen |-> <<>>, total_cost |-> 0, total_profit |-> 0,
                  step |-> MIN_STEP_CENTS]

\* mutant: the first result not recorded in results_same
AggregateFirstForgotten(agg, result) ==
    IF agg.best_result = None
    THEN [best_result |-> result,
          best_profit |-> result.total_profit,
          best_cost |-> result.total_cost,
          results_same |-> agg.results_same]
    ELSE IF IsClose(result.total_profit, agg.best_profit)
            /\ IsClose(result.total_cost, agg.best_cost)
    THEN [agg EXCEPT !.results_same = @ \cup {<<result.step, result>>}]
    ELSE IF \/ result.total_profit > agg.best_profit
            \/ /\ IsClose(result.total_profit, agg.best_profit)
               /\ result.total_cost > agg.best_cost
    THEN [best_result |-> result,
          best_profit |-> result.total_profit,
          best_cost |-> result.total_cost,
          results_same |-> {<<result.step, result>>}]
    ELSE agg

\* one pass of the body of the aggregation loop on a non-None result.
\* results_same is kept as the set of its (step, result) pairs: the list is
\* only read by min over the step, and no step occurs twice in it.
Aggregate(agg, result) ==
    IF agg.best_result = None
    THEN [best_result |-> result,
          best_profit |-> result.total_profit,
          best_cost |-> result.total_cost,
          results_same |-> agg.results_same \cup {<<result.step, result>>}]
    ELSE IF IsClose(result.total_profit, agg.best_profit)
            /\ IsClose(result.total_cost, agg.best_cost)
    THEN [agg EXCEPT !.results_same = @ \cup {<<result.step, result>>}]
    ELSE IF \/ result.total_profit > agg.best_profit
            \/ /\ IsClose(result.total_profit, agg.best_profit)
               /\ result.total_cost > agg.best_cost
    THEN [best_result |-> result,
          best_profit |-> result.total_profit,
          best_cost |-> result.total_cost,
          results_same |-> {<<result.step, result>>}]
    ELSE agg

\* min(results_same, key=lambda x: x[0]) and the returned tuple
FinalSelection(results_same) ==
    IF results_same # {}
    THEN LET m == CHOOSE x \in results_same :
                      \A y \in results_same : x[1] <= y[1]
         IN  [m[2] EXCEPT !.step = m[1]]
    ELSE EmptySolution

(***************************************************************************)
(* Brute force (bruteforce.py)                                             *)
(***************************************************************************)
\* the valid combinations: every non-empty combination within the budget
find_combinations(actions, budget) ==
    LET combos == {c \in SUBSET (1..Len(actions)) : c # {}}
        AsSeq(c) == LET sel == SelectSeq([i \in 1..Len(actions) |-> i],
                                         LAMBDA i : i \in c)
                    IN  [k \in 1..Len(sel) |-> actions[sel[k]]]
    IN  {[combo |-> AsSeq(c), total_cost |-> SumCost(AsSeq(c)),
          total_profit |-> SumProfit(AsSeq(c))] :
            c \in {d \in combos : SumCost(AsSeq(d)) <= budget}}

(***************************************************************************)
(* State                                                                   *)
(***************************************************************************)
VARIABLES
    actions,         \* argument: the option list
    budget,          \* argument: budget_eur
    budgets,         \* the budgets the caller may ask for
    pc,              \* "call", "enum", "pool", "collect", "done"
    pruned,          \* actions after prune_exact
    step,            \* loop variable of the granularity enumeration
    seen_cost_maps,
    unique_steps,
    next_task,       \* index of the next task a pool process will take
    running,         \* steps being computed by the pool processes
    agg,             \* best_result, best_profit, best_cost, results_same
    expired,         \* time.time() - start_global >= time_limit
    ret,             \* the returned Solution
    consumed,        \* history: the steps whose non-None result the loop body handled
    finished,        \* history: the number of workers that have finished
    tripped,         \* history: a worker's time guard returned None
    cut,             \* history: the loop was left on the deadline
    waited,          \* history: results taken after the deadline had elapsed
    last,            \* history: outcome of the previous call
    again            \* the caller has called a second time

vars == <<fine, actions, budget, budgets, pc, pruned, step, seen_cost_maps, unique_steps,
          next_task, running, agg, expired, ret, consumed, finished, tripped,
          cut, waited, last, again>>

AggInit == [best_result |-> None, best_profit |-> -1, best_cost |-> -1,
            results_same |-> {}]

\* mp.Pool(processes=min(len(steps), mp.cpu_count()))
Processes == Min2(Len(unique_steps), CpuCount)

FirstStep == Max2(5, MIN_STEP_CENTS)

(***************************************************************************)
(* Inputs                                                                  *)
(***************************************************************************)
MaxOptions == 2

OptionPool ==
    { Opt("A", 2, 10),            \* 0.4 cent
      Opt("B", Cents(20), 30),
      Opt("C", Cents(100), 10),
      Opt("D", 502, 20),          \* 100.4 cents
      Opt("E", 1002, 30),         \* 200.4 cents
      Opt("F", Cents(150), 2) }

Budgets == { Cents(110), 1498, Cents(400) }

RECURSIVE ListsOver(_, _)
ListsOver(pool, n) ==
    IF n = 0 THEN {<<>>}
    ELSE LET shorter == ListsOver(pool, n - 1)
         IN  shorter \cup
             {Append(l, o) : l \in {m \in shorter : Len(m) = n - 1},
                             o \in pool} 

NoRepeat(l) == \A i, j \in 1..Len(l) : i # j => l[i].name # l[j].name

OptionLists == {l \in ListsOver(OptionPool, MaxOptions) : NoRepeat(l)}

StartWith(acts, bs, b) ==
    /\ actions = acts
    /\ budgets = bs
    /\ budget = b
    /\ pc = "call"
    /\ pruned = <<>>
    /\ step = FirstStep
    /\ seen_cost_maps = {}
    /\ unique_steps = <<>>
    /\ next_task = 1
    /\ running = {}
    /\ agg = AggInit
    /\ expired = FALSE
    /\ ret = None
    /\ consumed = {}
    /\ finished = 0
    /\ tripped = FALSE
    /\ cut = FALSE
    /\ waited = 0
    /\ last = None
    /\ again = FALSE

Init ==
    /\ fine = FALSE
    /\ \E acts \in OptionLists, b \in Budgets : StartWith(acts, Budgets, b)

(***************************************************************************)
(* knapsack_dp_auto                                                        *)
(***************************************************************************)
\* entry: prune_exact and the early return on an empty list
Call ==
    /\ pc = "call"
    /\ pruned' = prune_exact(actions, budget)
    /\ IF pruned' = <<>>
       THEN pc' = "done" /\ ret' = EmptySolution
       ELSE pc' = "enum" /\ ret' = ret
    /\ UNCHANGED <<fine, actions, budget, budgets, step, seen_cost_maps, unique_steps,
                   next_task, running, agg, expired, consumed, finished,
                   tripped, cut, waited, last, again>>

\* one iteration of the loop over the candidate steps
EnumStep ==
    /\ pc = "enum"
    /\ LET mapping == Mapping(CostsCents(pruned), step)
       IN  IF mapping \notin seen_cost_maps
           THEN /\ seen_cost_maps' = seen_cost_maps \cup {mapping}
                /\ unique_steps' = Append(unique_steps, step)
           ELSE UNCHANGED <<seen_cost_maps, unique_steps>>
    /\ step' = step + 1
    /\ pc' = IF step = MAX_STEP_CENTS THEN "pool" ELSE "enum"
    /\ UNCHANGED <<fine, actions, budget, budgets, pruned, next_task, running, agg, expired,
                   ret, consumed, finished, tripped, cut, waited, last, again>>

\* the pool is created and its processes take the first tasks, in order
StartPool ==
    /\ pc = "pool"
    /\ pc' = "collect"
    /\ running' = {unique_steps[k] : k \in 1..Processes}
    /\ next_task' = Processes + 1
    /\ UNCHANGED <<fine, actions, budget, budgets, pruned, step, seen_cost_maps,
                   unique_steps, agg, expired, ret, consumed, finished,
                   tripped, cut, waited, last, again>>

\* the global time budget elapses
DeadlinePasses ==
    /\ pc = "collect"
    /\ ~expired
    /\ expired' = TRUE
    /\ UNCHANGED <<fine, actions, budget, budgets, pc, pruned, step, seen_cost_maps,
                   unique_steps, next_task, running, agg, ret, consumed,
                   finished, tripped, cut, waited, last, again>>

\* the task that has been running for the longest (tasks start in order)
Oldest == CHOOSE s \in running : \A t \in running : s <= t

\* the number of tasks started that could not have started yet had the
\* oldest running task finished first
Overtaken ==
    LET k == CHOOSE i \in 1..Len(unique_steps) : unique_steps[i] = Oldest
    IN  (next_task - 1) - k - (Processes - 1)

\* a worker finishes step s (its time guard tripping or not), its process
\* takes the next task, and the aggregation loop takes the result; the call
\* returns when the loop ends.  Any running worker may finish first, as long
\* as the oldest running task is overtaken by at most MaxOvertake later ones.
Collect(s, guard) ==
    /\ pc = "collect"
    /\ s \in running
    /\ \/ s = Oldest
       \/ next_task > Len(unique_steps)
       \/ Overtaken < MaxOvertake
    /\ IF expired
       THEN /\ running' = {}                \* pool.terminate()
            /\ next_task' = next_task
       ELSE IF next_task <= Len(unique_steps)
       THEN /\ running' = (running \ {s}) \cup {unique_steps[next_task]}
            /\ next_task' = next_task + 1
       ELSE /\ running' = running \ {s}
            /\ next_task' = next_task
    /\ finished' = finished + 1
    /\ waited' = IF expired THEN waited + 1 ELSE waited
    /\ LET result == IF guard THEN None ELSE dp_for_step(pruned, budget, s)
           exhausted == running' = {}
       IN  /\ cut' = (cut \/ expired)
           /\ tripped' = (tripped \/ (~expired /\ result = None))
           /\ IF expired \/ result = None
              THEN UNCHANGED <<agg, consumed>>
              ELSE /\ agg' = Aggregate(agg, result)
                   /\ consumed' = consumed \cup {s}
           /\ IF expired \/ exhausted
              THEN /\ pc' = "done"
                   /\ ret' = FinalSelection(agg'.results_same)
              ELSE UNCHANGED <<pc, ret>>
    /\ UNCHANGED <<fine, actions, budget, budgets, pruned, step, seen_cost_maps,
                   unique_steps, expired, last, again>>

Next ==
    \/ Call
    \/ EnumStep
    \/ StartPool
    \/ DeadlinePasses
    \/ \E s \in running, guard \in BOOLEAN : Collect(s, guard)

Spec == Init /\ [][Next]_vars

(***************************************************************************)
(* Scenario C of the specification, solved once                            *)
(***************************************************************************)
ScenarioC == <<Opt("X", Euros(100), 20), Opt("Y", Euros(150), 10),
               Opt("Z", Euros(50), 30)>>

InitScenarioC ==
    /\ fine = FALSE
    /\ StartWith(ScenarioC, {Euros(150)}, Euros(150))

\* the runs in which no worker's time guard trips
NextNoGuard ==
    \/ Call
    \/ EnumStep
    \/ StartPool
    \/ DeadlinePasses
    \/ \E s \in running : Collect(s, FALSE)

SpecScenarioC == InitScenarioC /\ [][NextNoGuard]_vars

(***************************************************************************)
(* A caller that solves twice for the same options, the second budget not  *)
(* smaller than the first                                                  *)
(***************************************************************************)
\* three options, the cheap ones worth less together at 2.00 than at 1.90
Ladder == <<Opt("P", Cents(50), 10), Opt("Q", Cents(60), 10),
            Opt("R", Cents(110), 20)>>

\* profit(T) + profit(U) = profit(S) + 1, a difference below the relative
\* tolerance of math.isclose
NearTie == <<Opt("S", 1500, 666667), Opt("T", 505, 990391),
             Opt("U", 511, 978186)>>

TwiceInputs == { [acts |-> Ladder, bs |-> {Cents(190), Cents(200)}],
                 [acts |-> NearTie, bs |-> {1500}] }

InitTwice ==
    /\ fine = FALSE
    /\ \E i \in TwiceInputs : \E b \in i.bs : StartWith(i.acts, i.bs, b)

\* the caller calls knapsack_dp_auto again
CallAgain(b) ==
    /\ pc = "done"
    /\ ~again
    /\ b \in budgets
    /\ b >= budget
    /\ last' = [budget |-> budget, total_profit |-> ret.total_profit,
                total_cost |-> ret.total_cost, step |-> ret.step,
                consumed |-> consumed, clean |-> ~tripped /\ ~cut]
    /\ again' = TRUE
    /\ budget' = b
    /\ pc' = "call"
    /\ pruned' = <<>>
    /\ step' = FirstStep
    /\ seen_cost_maps' = {}
    /\ unique_steps' = <<>>
    /\ next_task' = 1
    /\ running' = {}
    /\ agg' = AggInit
    /\ expired' = FALSE
    /\ ret' = None
    /\ consumed' = {}
    /\ finished' = 0
    /\ tripped' = FALSE
    /\ cut' = FALSE
    /\ waited' = 0
    /\ UNCHANGED <<fine, actions, budgets>>

NextTwice ==
    \/ Call
    \/ EnumStep
    \/ StartPool
    \/ DeadlinePasses
    \/ \E s \in running, guard \in BOOLEAN : Collect(s, guard)
    \/ \E b \in budgets : CallAgain(b)

SpecTwice == InitTwice /\ [][NextTwice]_vars

(***************************************************************************)
(* Calls with one option more than MaxOptions, drawn from a smaller pool,  *)
(* and calls on the fine grid, with amounts down to 1e-9 euro              *)
(***************************************************************************)
SmallPool == {o \in OptionPool : o.name \in {"A", "B", "C", "F"}}

LongerLists == {l \in ListsOver(SmallPool, MaxOptions + 1) : NoRepeat(l)}

\* on the fine grid: one cent, 1e-9 euro, two cents
FinePool == { Opt("K", Cents(1), 10), Opt("L", 1, 5), Opt("M", Cents(2), 3) }

FineBudgets == { Cents(1) + 1, Cents(3) }

FineLists == {l \in ListsOver(FinePool, MaxOptions + 1) : NoRepeat(l)}

InitLonger ==
    \/ /\ fine = FALSE
       /\ \E acts \in LongerLists, b \in Budgets : StartWith(acts, Budgets, b)
    \/ /\ fine = TRUE
       /\ \E acts \in FineLists, b \in FineBudgets : StartWith(acts, FineBudgets, b)

SpecLonger == InitLonger /\ [][Next]_vars

(***************************************************************************)
(* Properties                                                              *)
(***************************************************************************)
Done == pc = "done"

\* the worker results the aggregation loop handled
Results == {dp_for_step(pruned, budget, s) : s \in consumed}

Names(chosen) == {chosen[i].name : i \in 1..Len(chosen)}

NoOptionTwice(chosen) ==
    \A i, j \in 1..Len(chosen) : i # j => chosen[i] # chosen[j]

SameResult(r, q) ==
    /\ r.chosen = q.chosen
    /\ r.total_cost = q.total_cost
    /\ r.total_profit = q.total_profit

\* C1: the returned Solution, and every non-None worker result, costs at
\* most the budget (total_cost being the sum of the real costs chosen).
C1_CostWithinBudget ==
    /\ Done => ret.total_cost <= budget
    /\ \A r \in Results : r.total_cost <= budget

\* C2: total_profit is the sum of cost x rate over exactly the chosen
\* options, none chosen twice, in the returned Solution and in every
\* worker result.
C2_ProfitIsSumOfChosen ==
    /\ Done => /\ ret.total_profit = SumProfit(ret.chosen)
               /\ NoOptionTwice(ret.chosen)
    /\ \A r \in Results : /\ r.total_profit = SumProfit(r.chosen)
                           /\ NoOptionTwice(r.chosen)

\* C3: two calls with the same options and budget whose aggregation loops
\* took the same set of worker results return the same (total_profit,
\* total_cost, step), whatever the order the results arrived in.
C3_ArrivalOrderIrrelevant ==
    (Done /\ again /\ last.budget = budget /\ last.consumed = consumed)
        => /\ ret.total_profit = last.total_profit
           /\ ret.total_cost = last.total_cost
           /\ ret.step = last.step

\* C4: the returned Solution is one of the worker results the aggregation
\* loop took; none of them has a higher total_profit; none of those tied
\* with it on profit has a higher total_cost; none of those tied with it on
\* profit and cost has a smaller step.  "Higher" and "tied" are read the way
\* the aggregator compares (math.isclose), the reading kindest to the code.
C4_BestOfConsumed ==
    (Done /\ consumed # {}) =>
        /\ \E r \in Results : SameResult(r, ret) /\ r.step = ret.step
        /\ \A q \in Results :
              LET tiedp == IsClose(q.total_profit, ret.total_profit)
                  tiedc == IsClose(q.total_cost, ret.total_cost)
              IN  /\ q.total_profit <= ret.total_profit \/ tiedp
                  /\ tiedp => (q.total_cost <= ret.total_cost \/ tiedc)
                  /\ (tiedp /\ tiedc) => ret.step <= q.step

\* C5: once the global time budget has elapsed the aggregator waits for no
\* further worker: no worker result is taken after the deadline.
C5_NoWaitAfterDeadline == waited = 0

\* C6: the call returns exactly the empty Solution when no option costs at
\* most the budget (the empty list included) or when the loop took no
\* result (every worker returned None, or the deadline came first), and a
\* non-empty Solution in every other case.
C6_EmptyExactlyWhenNothing ==
    Done =>
        LET nothing == \/ \A i \in 1..Len(actions) : actions[i].cost > budget
                       \/ consumed = {}
        IN  /\ nothing => ret = EmptySolution
            /\ ~nothing => /\ ret.chosen # <<>>
                           /\ ret.total_cost > 0
                           /\ ret.total_profit > 0

C6_Witness ==
    /\ Done
    /\ tripped
    /\ finished > 0
    /\ consumed = {}
    /\ ret = EmptySolution

\* C7: with no time guard tripping in either call, the total_profit
\* returned for a budget is at least the one returned for a smaller budget.
C7_MonotoneInBudget ==
    (Done /\ again /\ last.clean /\ ~tripped /\ ~cut)
        => ret.total_profit >= last.total_profit

\* C8: Scenario C, no guard tripping: the call returns {X, Z} with
\* total_cost 150 and total_profit 35, the best profit among the
\* combinations find_combinations keeps for budget 150.
C8_ScenarioC ==
    (Done /\ actions = ScenarioC /\ budget = Euros(150) /\ ~tripped /\ ~cut) =>
        /\ Names(ret.chosen) = {"X", "Z"}
        /\ Len(ret.chosen) = 2
        /\ ret.total_cost = Euros(150)
        /\ ret.total_profit = Euros(20) * 100 + Euros(15) * 100
        /\ \E c \in find_combinations(actions, budget) :
                /\ Names(c.combo) = Names(ret.chosen)
                /\ c.total_profit = ret.total_profit
        /\ \A c \in find_combinations(actions, budget) :
                c.total_profit <= ret.total_profit

C8_Witness ==
    /\ Done
    /\ actions = ScenarioC
    /\ ~tripped /\ ~cut
    /\ finished = Len(unique_steps)
    /\ Names(ret.chosen) = {"X", "Z"}

RECURSIVE SumOver(_, _)
SumOver(f, S) ==
    IF S = {} THEN 0
    ELSE LET i == CHOOSE k \in S : TRUE
         IN  f[i] + SumOver(f, S \ {i})

\* the sets of options (indices) of a given total quantized cost
SetsOfWeight(costs_u, w, exact) ==
    {c \in SUBSET DOMAIN costs_u :
        IF exact THEN SumOver(costs_u, c) = w ELSE SumOver(costs_u, c) <= w}

SetProfit(acts, c) == SumOver([i \in 1..Len(acts) |-> Profit(acts[i])], c)

\* best[w] is the largest profit of a set of options of weight w (at most w
\* or exactly w), or the sentinel when there is no such set
TableHolds(tab, costs_u, exact) ==
    \A w \in DOMAIN tab.best :
        LET sets == SetsOfWeight(costs_u, w, exact)
        IN  \/ tab.best[w] = Unreachable /\ (exact => sets = {})
            \/ /\ tab.best[w] # Unreachable
               /\ \E c \in sets : SetProfit(pruned, c) = tab.best[w]
               /\ \A c \in sets : SetProfit(pruned, c) <= tab.best[w]

\* C9 as stated: best[0] = 0 and a reachable best[w] is the best profit
\* using at most w units, hence at least the profit of every single option
\* of quantized cost <= w.
C9_TableAtMost ==
    \A s \in (IF pc = "collect" THEN running ELSE {}) :
        LET tab == DpTable(pruned, budget, s)
            costs_u == Mapping(CostsCents(pruned), s)
        IN  /\ tab.best[0] = 0
            /\ \A w \in DOMAIN tab.best \ {0} :
                  \/ tab.best[w] = Unreachable
                  \/ /\ \A c \in SetsOfWeight(costs_u, w, FALSE) :
                            SetProfit(pruned, c) <= tab.best[w]
                     /\ \A i \in DOMAIN costs_u :
                            costs_u[i] <= w => Profit(pruned[i]) <= tab.best[w]

\* C9 amended: best[w] is the sentinel exactly when no set of options has
\* quantized costs summing to exactly w, and is otherwise the largest profit
\* of such a set (so best[0] is the profit of the options of quantized cost
\* 0, and a reachable best[w] is at least the profit of every single option
\* of quantized cost exactly w).
C9_TableExactly ==
    \A s \in (IF pc = "collect" THEN running ELSE {}) :
        LET tab == DpTable(pruned, budget, s)
            costs_u == Mapping(CostsCents(pruned), s)
        IN  /\ TableHolds(tab, costs_u, TRUE)
            /\ tab.best[0] = SetProfit(pruned, {i \in DOMAIN costs_u : costs_u[i] = 0})
            /\ \A w \in DOMAIN tab.best, i \in DOMAIN costs_u :
                  (tab.best[w] # Unreachable /\ costs_u[i] = w)
                      => Profit(pruned[i]) <= tab.best[w]

C9_Witness ==
    /\ pc = "collect"
    /\ \E s \in running :
          LET tab == DpTable(pruned, budget, s)
          IN  \E v, w \in DOMAIN tab.best :
                 /\ 0 < v /\ v < w
                 /\ tab.best[v] > tab.best[w]
                 /\ tab.best[w] # Unreachable

\* ceil(c / s), written without the program's formula
CeilDiv(c, s) == CHOOSE k \in 0..(c + 1) : k * s >= c /\ (k = 0 \/ (k - 1) * s < c)

QuantVector(s) == [i \in 1..Len(pruned) |-> CeilDiv(RoundCents(pruned[i].cost), s)]

TableSize(s) == RoundCents(budget) \div s

\* the step the enumeration has just gone through, when it skipped it
JustSkipped ==
    IF pc \in {"enum", "collect"} /\ step > FirstStep
          /\ \A k \in 1..Len(unique_steps) : unique_steps[k] # step - 1
    THEN {step - 1} ELSE {}

\* C10 as stated: a skipped step has the quantized-cost vector of an
\* accepted step, and its worker would return the result of that step's
\* worker.
C10_SkippedSameResult ==
    \A t \in JustSkipped :
        \E k \in 1..Len(unique_steps) :
            LET u == unique_steps[k]
            IN  /\ QuantVector(u) = QuantVector(t)
                /\ SameResult(dp_for_step(pruned, budget, t),
                              dp_for_step(pruned, budget, u))

\* C10 amended: a skipped step has the quantized-cost vector of an accepted
\* step, and its worker would return the result of that step's worker
\* whenever the two steps also give the same table size budget_cents // step.
C10_SkippedSameResultIfSameSize ==
    \A t \in JustSkipped :
        \E k \in 1..Len(unique_steps) :
            LET u == unique_steps[k]
            IN  /\ QuantVector(u) = QuantVector(t)
                /\ TableSize(u) = TableSize(t)
                      => SameResult(dp_for_step(pruned, budget, t),
                                    dp_for_step(pruned, budget, u))

C10_Witness ==
    \E t \in JustSkipped :
        \E k \in 1..Len(unique_steps) :
            /\ QuantVector(unique_steps[k]) = QuantVector(t)
            /\ TableSize(unique_steps[k]) = TableSize(t)
            /\ TableSize(t) > 0
            /\ Len(pruned) = 2

\* the options of the pruned list absent from a worker's chosen list
Unchosen(r) ==
    {i \in 1..Len(pruned) : \A k \in 1..Len(r.chosen) : r.chosen[k] # pruned[i]}

\* C11 as stated: in every non-None worker result, no option of the pruned
\* list that is absent from chosen costs at most budget - total_cost:
\* nothing left out still fits in the leftover budget.
C11_NothingLeftFits ==
    \A s \in (IF pc = "collect" THEN running ELSE {}) :
        LET r == dp_for_step(pruned, budget, s)
        IN  r # None =>
                \A i \in Unchosen(r) : pruned[i].cost > budget - r.total_cost

\* C11 amended: in every non-None worker result whose leftover budget
\* budget - total_cost exceeds the epsilon 1e-9, no option of the pruned
\* list that is absent from chosen costs at most the leftover budget.
C11_NothingLeftFitsBeyondEps ==
    \A s \in (IF pc = "collect" THEN running ELSE {}) :
        LET r == dp_for_step(pruned, budget, s)
        IN  (r # None /\ budget - r.total_cost > Eps) =>
                \A i \in Unchosen(r) : pruned[i].cost > budget - r.total_cost

\* a worker whose greedy fill added an option, left more than the epsilon
\* over and left an option out
C11_Witness ==
    /\ pc = "collect"
    /\ \E s \in running :
          LET r == dp_for_step(pruned, budget, s)
              tab == DpTable(pruned, budget, s)
              chosen_idx == Reconstruct(tab.parent, WStar(tab.best), {})
          IN  /\ r # None
              /\ Len(r.chosen) > Cardinality(chosen_idx)
              /\ budget - r.total_cost > Eps
              /\ Unchosen(r) # {}
=============================================================================
